---------------------------- MODULE Spec2Model ----------------------------
(***************************************************************************)
(* A model of the raydium monitor.                                         *)
(*                                                                         *)
(*   Spec      the asynchronous MonitorService of src/src/mointor.rs: the  *)
(*             owner's calls (add_item, run, stop), the task run() spawns  *)
(*             to start the per-item tasks, the per-item tick loops, the   *)
(*             metrics map behind its mutex and the broadcast channel.     *)
(*   SpecPool  the history store of src/src/raydium_pool.rs                *)
(*             (PoolMonitor::update_historical_data), run twice over the   *)
(*             same calls under two wall clocks.                           *)
(*   SpecChange  the change engine of src/src/raydium_pool.rs              *)
(*             (get_changes, calculate_change) and the alert checks of     *)
(*             format_pool_data, over recorded histories.                  *)
(*   SpecConc  concurrent update_historical_data and get_changes calls on  *)
(*             one PoolMonitor, step by step under its mutex.              *)
(*   SpecThread  the thread scheduler of src/src/main.rs: one thread per   *)
(*             item that probes, sends and sleeps the rest of the          *)
(*             interval.                                                   *)
(*   FairSpec  Spec under the scheduling of the runtime.                   *)
(***************************************************************************)
EXTENDS Integers, Sequences, FiniteSets, TLC

(***************************************************************************)
(* Bounds of the model.                                                    *)
(***************************************************************************)
MaxItems == 2
MaxRuns == 2
MaxTicks == 3
MaxSubs == 1
\* The longest series a pool's history grows to.
MaxSeries == 2
\* The most records the histories hold together under SpecChange and
\* SpecConc.
MaxHistory == 3

(***************************************************************************)
(* Program constants.                                                      *)
(***************************************************************************)
\* A channel of one slot.
SmallCapacity == 2 - 1

\* broadcast::channel(100)
Capacity == 100

Names == {"a", "b"}
\* The probes a caller can register: one that fails on every call, and one
\* that returns Ok or Err from call to call.
CheckFns == {"failing", "flaky"}
Statuses == {"OK", "Error"}

Runs == 1..MaxRuns
ItemIdx == 1..MaxItems
Subs == 1..MaxSubs
\* A per-item task is named by the run() call that spawned it and by the
\* position of its item in the items vector.
Tasks == Runs \X ItemIdx
NoTask == <<0, 0>>
NoCall == [name |-> "", check_fn |-> ""]

VARIABLES
    items,        \* MonitorService.items: Vec<MonitorItem>
    itemsLock,    \* holder of the items mutex: 0 (free) or a run number
    adding,       \* the add_item call waiting for the items mutex, or NoCall
    shutdown_tx,  \* MonitorService.shutdown_tx: "None" or "Some"
    runs,         \* number of run() calls made
    spawner,      \* state of the task each run() call spawned
    task,         \* state of each per-item task
    metrics,      \* MonitorService.metrics: HashMap<String, MonitorMetrics>
    metricsLock,  \* holder of the metrics mutex: NoTask or a task
    clock,        \* Instant::now(), counted in ticks started
    published,    \* every event handed to tx.send, in order
    stop_len,     \* Len(published) when stop() last returned, -1 before
    rx,           \* the receivers of the broadcast channel
    run_len,      \* Len(items) when run() returned, while its task waits
    idle_stop,    \* the last call was a stop() with shutdown_tx = None
    historical_data, \* PoolMonitor.historical_data
    utc_now,         \* Utc::now()
    replay_data,     \* historical_data of the replayed run
    replay_now,      \* Utc::now() of the replayed run
    latest_ts,       \* per pool: timestamp of the last snapshot recorded
    monotone,        \* per pool: the recorded timestamps never decreased
    changes,         \* the pool and result of the last get_changes call
    alerts,          \* the thresholds and alerts of the last format_pool_data
    records,         \* the baseline records the last get_changes found
    poolLock,        \* holder of the historical_data mutex: 0 or a caller
    caller,          \* the concurrent calls on the PoolMonitor
    serial,          \* the history had each update run alone, in lock order
    instant,         \* Instant::now() of the thread scheduler
    thread,          \* the thread of each item of the thread scheduler
    chan             \* the mpsc channel from the threads to run()

\* What the claims need to remember: run_len[r] is the length of the items
\* vector when run r returned, kept while the task run r spawned waits for
\* the items mutex; idle_stop tells that the last call made on the service
\* was a stop() with no shutdown sender in place.
ghostVars == <<run_len, idle_stop>>
monVars == <<items, itemsLock, adding, shutdown_tx, runs, spawner, task,
             metrics, metricsLock, clock, published, stop_len, rx,
             ghostVars>>
poolVars == <<historical_data, utc_now, replay_data, replay_now, latest_ts,
              monotone>>
changeVars == <<changes, alerts, records>>
concVars == <<poolLock, caller, serial>>
threadVars == <<instant, thread, chan>>
otherVars == <<changeVars, concVars, threadVars>>
vars == <<monVars, poolVars, otherVars>>

(***************************************************************************)
(* Helpers.                                                                *)
(***************************************************************************)
Range(s) == {s[k] : k \in 1..Len(s)}

IdleTask == [pc |-> "none", start |-> 0, status |-> "OK", seq |-> 0]
NoRx == [state |-> "none", next |-> 0, sub_at |-> 0, got |-> <<>>]

\* The number of receivers of the channel (tx.receiver_count()).
ReceiverCount == Cardinality({s \in Subs : rx[s].state = "active"})

TasksOf(r) == {t \in Tasks : t[1] = r /\ task[t].pc # "none"}

(***************************************************************************)
(* MonitorService (src/src/mointor.rs).                                    *)
(***************************************************************************)
MonInit ==
    /\ items = <<>>
    /\ itemsLock = 0
    /\ adding = NoCall
    /\ shutdown_tx = "None"
    /\ runs = 0
    /\ spawner = [r \in Runs |-> "none"]
    /\ task = [t \in Tasks |-> IdleTask]
    /\ metrics = <<>>
    /\ metricsLock = NoTask
    /\ clock = 0
    /\ published = <<>>
    /\ stop_len = -1
    /\ rx = [s \in Subs |-> NoRx]
    /\ run_len = [r \in Runs |-> 0]
    /\ idle_stop = FALSE

\* add_item is called: the caller waits in items.lock().await.
AddItemCall(name, fn) ==
    /\ adding = NoCall
    /\ Len(items) < MaxItems
    /\ adding' = [name |-> name, check_fn |-> fn]
    /\ UNCHANGED poolVars
    /\ UNCHANGED otherVars
    /\ idle_stop' = FALSE
    /\ UNCHANGED run_len
    /\ UNCHANGED <<items, itemsLock, shutdown_tx, runs, spawner, task, metrics,
                   metricsLock, clock, published, stop_len, rx>>

\* add_item gets the items mutex, pushes the item and returns.
AddItemPush ==
    /\ adding # NoCall
    /\ itemsLock = 0
    /\ items' = Append(items, adding)
    /\ adding' = NoCall
    /\ UNCHANGED poolVars
    /\ UNCHANGED otherVars
    /\ UNCHANGED ghostVars
    /\ UNCHANGED <<itemsLock, shutdown_tx, runs, spawner, task, metrics,
                   metricsLock, clock, published, stop_len, rx>>

\* run(): a fresh shutdown channel, whose receiver is dropped when run()
\* returns, and one spawned task that will start the per-item tasks.
Run ==
    /\ adding = NoCall
    /\ runs < MaxRuns
    /\ runs' = runs + 1
    /\ shutdown_tx' = "Some"
    /\ spawner' = [spawner EXCEPT ![runs + 1] = "waiting"]
    /\ stop_len' = -1
    /\ run_len' = [run_len EXCEPT ![runs + 1] = Len(items)]
    /\ idle_stop' = FALSE
    /\ UNCHANGED poolVars
    /\ UNCHANGED otherVars
    /\ UNCHANGED <<items, itemsLock, adding, task, metrics, metricsLock,
                   clock, published, rx>>

\* The items guard scoped to the spawn loop, dropped before join_all.
GuardDroppedAfterSpawn(r) == 0

\* What the items mutex holds once the spawn loop of run r is over: the
\* guard lives to the end of the spawned block, across join_all.
GuardAfterSpawn(r) == r

\* The task spawned by run r gets the items mutex and spawns one task per
\* item of the vector.
SpawnerAcquire(r) ==
    /\ spawner[r] = "waiting"
    /\ itemsLock = 0
    /\ itemsLock' = GuardAfterSpawn(r)
    /\ task' = [t \in Tasks |->
                  IF t[1] = r /\ t[2] <= Len(items)
                  THEN [IdleTask EXCEPT !.pc = "tick"]
                  ELSE task[t]]
    /\ spawner' = [spawner EXCEPT ![r] = "joining"]
    /\ UNCHANGED poolVars
    /\ UNCHANGED otherVars
    /\ run_len' = [run_len EXCEPT ![r] = 0]
    /\ UNCHANGED idle_stop
    /\ UNCHANGED <<items, adding, shutdown_tx, runs, metrics, metricsLock,
                   clock, published, stop_len, rx>>

\* join_all(handles) returns when every task of run r has ended; the block
\* ends and drops the items guard.
SpawnerJoin(r) ==
    /\ spawner[r] = "joining"
    /\ \A t \in TasksOf(r) : task[t].pc = "done"
    /\ itemsLock' = IF itemsLock = r THEN 0 ELSE itemsLock
    /\ spawner' = [spawner EXCEPT ![r] = "done"]
    /\ UNCHANGED poolVars
    /\ UNCHANGED otherVars
    /\ UNCHANGED ghostVars
    /\ UNCHANGED <<items, adding, shutdown_tx, runs, task, metrics,
                   metricsLock, clock, published, stop_len, rx>>

\* The instant read once, before the loop, and reused by every tick.
StartBeforeLoop(t) == task[t].start

\* The instant a tick records: let start = Instant::now().
TickStart(t) == clock

\* interval.tick() completes; the task reads the clock and calls check_fn.
Tick(t) ==
    /\ task[t].pc = "tick"
    /\ clock < MaxTicks
    /\ task' = [task EXCEPT ![t] = [pc |-> "probe", start |-> TickStart(t),
                                    status |-> @.status, seq |-> @.seq + 1]]
    /\ clock' = clock + 1
    /\ UNCHANGED poolVars
    /\ UNCHANGED otherVars
    /\ UNCHANGED ghostVars
    /\ UNCHANGED <<items, itemsLock, adding, shutdown_tx, runs, spawner,
                   metrics, metricsLock, published, stop_len, rx>>

\* What a probe can return.
ProbeResults(fn) == IF fn = "failing" THEN {"Error"} ELSE {"OK", "Error"}

\* check_future.await returns, and the result becomes a status. A probe
\* need not return: nothing forces this step.
ProbeReturn(t, res) ==
    /\ task[t].pc = "probe"
    /\ res \in ProbeResults(items[t[2]].check_fn)
    /\ task' = [task EXCEPT ![t].pc = "lock", ![t].status = res]
    /\ UNCHANGED poolVars
    /\ UNCHANGED otherVars
    /\ UNCHANGED ghostVars
    /\ UNCHANGED <<items, itemsLock, adding, shutdown_tx, runs, spawner,
                   metrics, metricsLock, clock, published, stop_len, rx>>

\* metrics.lock().await
LockMetrics(t) ==
    /\ task[t].pc = "lock"
    /\ metricsLock = NoTask
    /\ metricsLock' = t
    /\ task' = [task EXCEPT ![t].pc = "update"]
    /\ UNCHANGED poolVars
    /\ UNCHANGED otherVars
    /\ UNCHANGED ghostVars
    /\ UNCHANGED <<items, itemsLock, adding, shutdown_tx, runs, spawner,
                   metrics, clock, published, stop_len, rx>>

\* A metrics update that counts a check only when the probe succeeded.
UpdateMetricsOkOnly(m, name, start, status) ==
    LET old == IF name \in DOMAIN m
               THEN m[name]
               ELSE [last_check_time |-> start, last_status |-> status,
                     check_count |-> 0, error_count |-> 0]
        new == [last_check_time |-> start,
                last_status |-> status,
                check_count |-> IF status = "Error"
                                THEN old.check_count
                                ELSE old.check_count + 1,
                error_count |-> IF status = "Error"
                                THEN old.error_count + 1
                                ELSE old.error_count]
    IN  [n \in (DOMAIN m) \cup {name} |-> IF n = name THEN new ELSE m[n]]

\* entry(name).or_insert(..), then the four assignments.
UpdateMetrics(m, name, start, status) ==
    LET old == IF name \in DOMAIN m
               THEN m[name]
               ELSE [last_check_time |-> start, last_status |-> status,
                     check_count |-> 0, error_count |-> 0]
        new == [last_check_time |-> start,
                last_status |-> status,
                check_count |-> old.check_count + 1,
                error_count |-> IF status = "Error"
                                THEN old.error_count + 1
                                ELSE old.error_count]
    IN  [n \in (DOMAIN m) \cup {name} |-> IF n = name THEN new ELSE m[n]]

\* The event a task sends for its current tick.
EventOf(t) ==
    [item_name |-> items[t[2]].name, status |-> task[t].status,
     timestamp |-> task[t].start, item |-> t[2], run |-> t[1],
     seq |-> task[t].seq]

\* broadcast::Sender::send fails when the channel has no receiver.
SendIsErr == ReceiverCount = 0

\* The metrics guard taken outside the loop and never dropped.
GuardKept(t) == t

\* The holder of the metrics mutex once the loop body is over: the guard
\* is dropped at the end of each iteration.
GuardAfterBody(t) == NoTask

\* The metrics update and tx.send of one tick; the loop breaks when the
\* send fails.
UpdatePublish(t) ==
    /\ task[t].pc = "update"
    /\ metrics' = UpdateMetrics(metrics, items[t[2]].name, task[t].start,
                                task[t].status)
    /\ published' = Append(published, EventOf(t))
    /\ task' = [task EXCEPT ![t] = [pc |-> IF SendIsErr THEN "done" ELSE "tick",
                                    start |-> 0, status |-> "OK",
                                    seq |-> @.seq]]
    /\ metricsLock' = GuardAfterBody(t)
    /\ UNCHANGED poolVars
    /\ UNCHANGED otherVars
    /\ UNCHANGED ghostVars
    /\ UNCHANGED <<items, itemsLock, adding, shutdown_tx, runs, spawner,
                   clock, stop_len, rx>>

\* A take() that puts a fresh sender in place.
TakeRenews(tx) == "Some"

\* What shutdown_tx.take() leaves in shutdown_tx.
Take(tx) == "None"

\* stop(): takes shutdown_tx and, if there was a sender, sends on it; the
\* receiver is gone, the error is ignored, and no task reads the channel.
Stop ==
    /\ adding = NoCall
    /\ shutdown_tx' = Take(shutdown_tx)
    /\ stop_len' = IF shutdown_tx = "Some" THEN Len(published) ELSE stop_len
    /\ idle_stop' = (shutdown_tx = "None")
    /\ UNCHANGED run_len
    /\ UNCHANGED poolVars
    /\ UNCHANGED otherVars
    /\ UNCHANGED <<items, itemsLock, adding, runs, spawner, task, metrics,
                   metricsLock, clock, published, rx>>

(***************************************************************************)
(* The broadcast channel (tokio::sync::broadcast, capacity 100): a         *)
(* receiver reads the values sent after its creation, in order, and        *)
(* skips to the oldest retained value when it lags by more than the        *)
(* capacity.                                                               *)
(***************************************************************************)
Subscribe(s) ==
    /\ rx[s].state = "none"
    /\ rx' = [rx EXCEPT ![s] = [state |-> "active", next |-> Len(published),
                                sub_at |-> Len(published), got |-> <<>>]]
    /\ UNCHANGED poolVars
    /\ UNCHANGED otherVars
    /\ UNCHANGED ghostVars
    /\ UNCHANGED <<items, itemsLock, adding, shutdown_tx, runs, spawner, task,
                   metrics, metricsLock, clock, published, stop_len>>

Recv(s) ==
    /\ rx[s].state = "active"
    /\ rx[s].next < Len(published)
    /\ rx' = [rx EXCEPT ![s] =
                IF Len(published) - @.next > Capacity
                THEN [@ EXCEPT !.next = Len(published) - Capacity]
                ELSE [@ EXCEPT !.next = @ + 1,
                               !.got = Append(@, published[rx[s].next + 1])]]
    /\ UNCHANGED poolVars
    /\ UNCHANGED otherVars
    /\ UNCHANGED ghostVars
    /\ UNCHANGED <<items, itemsLock, adding, shutdown_tx, runs, spawner, task,
                   metrics, metricsLock, clock, published, stop_len>>

\* The receiver is dropped.
Unsubscribe(s) ==
    /\ rx[s].state = "active"
    /\ rx' = [rx EXCEPT ![s] = [NoRx EXCEPT !.state = "dropped"]]
    /\ UNCHANGED poolVars
    /\ UNCHANGED otherVars
    /\ UNCHANGED ghostVars
    /\ UNCHANGED <<items, itemsLock, adding, shutdown_tx, runs, spawner, task,
                   metrics, metricsLock, clock, published, stop_len>>

PoolIdle ==
    /\ historical_data = <<>>
    /\ utc_now = 0
    /\ replay_data = <<>>
    /\ replay_now = 0
    /\ latest_ts = <<>>
    /\ monotone = <<>>

\* No get_changes or format_pool_data call has been made.
NoResult == [id |-> "", result |-> [some |-> FALSE]]
NoAlerts == [evaluated |-> FALSE]
NoRecords == [some |-> FALSE]
ChangeIdle ==
    /\ changes = NoResult
    /\ alerts = NoAlerts
    /\ records = NoRecords

\* Concurrent callers of the PoolMonitor and a caller making no call.
MaxCallers == 2
Callers == 1..MaxCallers
NoCaller == [pc |-> "idle", op |-> "", arg |-> "", result |-> [some |-> FALSE]]
ConcIdle ==
    /\ poolLock = 0
    /\ caller = [c \in Callers |-> NoCaller]
    /\ serial = <<>>
\* The items of the thread scheduler and a thread not spawned yet.
ThreadItems == {1, 2}
NoThread == [pc |-> "none", start |-> 0, until |-> 0, elapsed |-> 0,
             count |-> 0, sent |-> 0, prev_start |-> 0,
             prev_elapsed |-> 0, late |-> FALSE]
ThreadIdle ==
    /\ instant = 0
    /\ thread = [i \in ThreadItems |-> NoThread]
    /\ chan = <<>>
OtherIdle == ChangeIdle /\ ConcIdle /\ ThreadIdle

Init == MonInit /\ PoolIdle /\ OtherIdle
Next ==
    \/ \E name \in Names, fn \in CheckFns : AddItemCall(name, fn)
    \/ AddItemPush
    \/ Run
    \/ Stop
    \/ \E r \in Runs : SpawnerAcquire(r)
    \/ \E r \in Runs : SpawnerJoin(r)
    \/ \E t \in Tasks : Tick(t)
    \/ \E t \in Tasks, res \in Statuses : ProbeReturn(t, res)
    \/ \E t \in Tasks : LockMetrics(t)
    \/ \E t \in Tasks : UpdatePublish(t)
    \/ \E s \in Subs : Subscribe(s)
    \/ \E s \in Subs : Recv(s)
    \/ \E s \in Subs : Unsubscribe(s)

Spec == Init /\ [][Next]_vars

(***************************************************************************)
(* Properties of MonitorService, checked under Spec.                       *)
(***************************************************************************)
Active(t) == task[t].pc \notin {"none", "done"}
InFlight(t) == task[t].pc \in {"probe", "lock", "update"}
\* The positions in a sequence of events of the events of item i.
EventsOfItem(evs, i) == {k \in 1..Len(evs) : evs[k].item = i}
EventsOfTask(t) ==
    {k \in 1..Len(published) :
        published[k].run = t[1] /\ published[k].item = t[2]}
EventsOfName(n) == {k \in 1..Len(published) : published[k].item_name = n}
Last(S) == CHOOSE k \in S : \A j \in S : j <= k

\* C1: after stop() on a running service every item publishes at most one
\* more event (from a probe in flight) and then none; run() followed by
\* stop() yields at most one event per item.
C1_StopEndsPublishing ==
    stop_len >= 0 =>
        \A i \in 1..Len(items) :
            Cardinality({k \in EventsOfItem(published, i) : k > stop_len}) <= 1

C3_FailingItemKeepsTicking ==
    \A t \in Tasks :
        (task[t].pc # "none" /\ items[t[2]].check_fn = "failing") =>
            /\ task[t].pc # "done"
            /\ \A k \in EventsOfTask(t) : published[k].status = "Error"
            /\ Cardinality(EventsOfTask(t))
                 = task[t].seq - (IF InFlight(t) THEN 1 ELSE 0)

\* C4: publishing an event while the channel has no subscriber only loses
\* the event: the task that published goes back to wait for its next tick.
C4_PublishKeepsTask ==
    [][\A t \in Tasks :
          (task[t].pc = "update" /\ task'[t].pc # "update")
              => task'[t].pc = "tick"]_vars

\* C5: every tick calls the probe once, updates the metrics once and
\* publishes once: per item name, check_count is the number of events
\* published, error_count the number of Error events among them, and
\* last_status and last_check_time are those of the last event published.
C5_MetricsMatchEvents ==
    /\ \A n \in Names :
          LET ks == EventsOfName(n) IN
          IF ks = {}
          THEN n \notin DOMAIN metrics
          ELSE /\ n \in DOMAIN metrics
               /\ metrics[n].check_count = Cardinality(ks)
               /\ metrics[n].error_count
                    = Cardinality({k \in ks : published[k].status = "Error"})
               /\ metrics[n].error_count <= metrics[n].check_count
               /\ metrics[n].last_status = published[Last(ks)].status
               /\ metrics[n].last_check_time = published[Last(ks)].timestamp
    /\ \A t \in Tasks :
          task[t].seq
            = Cardinality(EventsOfTask(t)) + (IF InFlight(t) THEN 1 ELSE 0)

\* One name has been checked twice, with one failure and then a success.
C5_Witness ==
    \E n \in DOMAIN metrics :
        /\ metrics[n].check_count = 2
        /\ metrics[n].error_count = 1
        /\ metrics[n].last_status = "OK"

\* C6: a probe that is slow, never returns or fails holds nothing another
\* item's task needs: a task waiting for its tick, or holding the metrics
\* mutex, can always take its step, and a task waiting for the metrics
\* mutex waits only for a task that is in its (non-blocking) update; a task
\* ends only on the failure of its own send.
C6_ItemsIsolated ==
    \A t \in Tasks :
        /\ (task[t].pc = "tick" /\ clock < MaxTicks) => ENABLED Tick(t)
        /\ task[t].pc = "update" => ENABLED UpdatePublish(t)
        /\ task[t].pc = "lock" =>
              \/ ENABLED LockMetrics(t)
              \/ /\ metricsLock \in Tasks
                 /\ ENABLED UpdatePublish(metricsLock)
        /\ task[t].pc = "done" =>
              /\ EventsOfTask(t) # {}
              /\ task[t].seq = Cardinality(EventsOfTask(t))

\* The first probe of one item is still in flight while another item has
\* completed two ticks.
C6_Witness ==
    \E t1, t2 \in Tasks :
        /\ t1[2] # t2[2]
        /\ task[t1].pc = "probe"
        /\ task[t1].start = 0
        /\ Cardinality(EventsOfTask(t2)) = 2

\* C7: a receiver created after N events were published receives none of
\* them, and receives the events published afterwards, all of them and in
\* publish order, as long as it lags by no more than 100 events.
C7_LateSubscriber ==
    \A s \in Subs :
        (rx[s].state = "active" /\ Len(published) - rx[s].sub_at <= 100) =>
            /\ rx[s].sub_at <= rx[s].next
            /\ rx[s].next <= Len(published)
            /\ rx[s].got = SubSeq(published, rx[s].sub_at + 1, rx[s].next)
            /\ \A k \in 1..rx[s].sub_at : published[k] \notin Range(rx[s].got)
            /\ rx[s].next < Len(published) => ENABLED Recv(s)

\* A receiver created after one event has received the two events that
\* followed.
C7_Witness ==
    \E s \in Subs :
        /\ rx[s].state = "active"
        /\ rx[s].sub_at = 1
        /\ Len(rx[s].got) = 2

\* Whether the events of each item appear in the order of their ticks.
InTickOrder(evs) ==
    \A j, k \in 1..Len(evs) :
        (j < k /\ evs[j].item = evs[k].item)
            => evs[j].timestamp < evs[k].timestamp

\* C8: the events of an item are published, and received by every
\* subscriber, in the order of the item's ticks, whatever the other tasks
\* do.
C8_PerItemTickOrder ==
    /\ InTickOrder(published)
    /\ \A s \in Subs : InTickOrder(rx[s].got)

\* A subscriber has received two events of one item with an event of
\* another item between them.
C8_Witness ==
    \E s \in Subs :
        /\ Len(rx[s].got) = 3
        /\ rx[s].got[1].item = rx[s].got[3].item
        /\ rx[s].got[2].item # rx[s].got[1].item

(***************************************************************************)
(* PoolMonitor (src/src/raydium_pool.rs). Time is in seconds.              *)
(***************************************************************************)
Minutes(n) == n * 60
Hours(n) == n * 3600
Days(n) == n * 86400

PoolIds == {"p1", "p2"}
\* The instants snapshots are stamped with and the wall clock shows.
Instants == {0, Minutes(5), Hours(24) + 1, Days(8)}
Volumes == {100, 150}
Prices == {2}
Tvls == {10}
PoolInfos ==
    [id : PoolIds, volume_24h : Volumes, price : Prices, tvl : Tvls,
     timestamp : Instants]

\* PoolMonitor::new(), at any wall-clock time; the replayed run starts at
\* a wall-clock time of its own.
PoolInit ==
    /\ historical_data = <<>>
    /\ replay_data = <<>>
    /\ utc_now \in Instants
    /\ replay_now \in Instants
    /\ latest_ts = <<>>
    /\ monotone = <<>>

\* The series of a pool, empty when the map has no entry for it.
SeriesOf(hd, id) == IF id \in DOMAIN hd THEN hd[id] ELSE <<>>

\* The cutoff of the retention: Utc::now() - 7 days.
WeekAgo(now, pool_info) == now - Days(7)

\* An update whose retain runs over the series of every pool.
UpdateHistoricalDataPruneAll(hd, pool_info, now) ==
    LET pushed == Append(SeriesOf(hd, pool_info.id),
                         [volume_24h |-> pool_info.volume_24h,
                          price |-> pool_info.price,
                          tvl |-> pool_info.tvl,
                          timestamp |-> pool_info.timestamp])
        week_ago == WeekAgo(now, pool_info)
    IN  [id \in (DOMAIN hd) \cup {pool_info.id} |->
            SelectSeq(IF id = pool_info.id THEN pushed ELSE hd[id],
                      LAMBDA record : record.timestamp > week_ago)]

\* update_historical_data: push the record, then retain the records newer
\* than the cutoff.
UpdateHistoricalData(hd, pool_info, now) ==
    LET pushed == Append(SeriesOf(hd, pool_info.id),
                         [volume_24h |-> pool_info.volume_24h,
                          price |-> pool_info.price,
                          tvl |-> pool_info.tvl,
                          timestamp |-> pool_info.timestamp])
        week_ago == WeekAgo(now, pool_info)
        kept == SelectSeq(pushed, LAMBDA record : record.timestamp > week_ago)
    IN  [id \in (DOMAIN hd) \cup {pool_info.id} |->
            IF id = pool_info.id THEN kept ELSE hd[id]]

\* One call of update_historical_data, made in the run and in its replay.
Record(pool_info) ==
    /\ Len(SeriesOf(historical_data, pool_info.id)) < MaxSeries
    /\ Len(SeriesOf(replay_data, pool_info.id)) < MaxSeries
    /\ historical_data' = UpdateHistoricalData(historical_data, pool_info,
                                               utc_now)
    /\ replay_data' = UpdateHistoricalData(replay_data, pool_info, replay_now)
    /\ latest_ts' = [id \in (DOMAIN latest_ts) \cup {pool_info.id} |->
                        IF id = pool_info.id THEN pool_info.timestamp
                        ELSE latest_ts[id]]
    /\ monotone' = [id \in (DOMAIN monotone) \cup {pool_info.id} |->
                       IF id # pool_info.id THEN monotone[id]
                       ELSE IF id \notin DOMAIN latest_ts THEN TRUE
                       ELSE monotone[id]
                            /\ pool_info.timestamp >= latest_ts[id]]
    /\ UNCHANGED <<utc_now, replay_now>>
    /\ UNCHANGED monVars
    /\ UNCHANGED otherVars

\* The wall clock of the run moves on.
AdvanceClock(now) ==
    /\ now > utc_now
    /\ utc_now' = now
    /\ UNCHANGED <<historical_data, replay_data, replay_now, latest_ts,
                   monotone>>
    /\ UNCHANGED monVars
    /\ UNCHANGED otherVars

\* The wall clock of the replay moves on.
AdvanceReplayClock(now) ==
    /\ now > replay_now
    /\ replay_now' = now
    /\ UNCHANGED <<historical_data, replay_data, utc_now, latest_ts,
                   monotone>>
    /\ UNCHANGED monVars
    /\ UNCHANGED otherVars

InitPool == MonInit /\ PoolInit /\ OtherIdle

NextPool ==
    \/ \E pool_info \in PoolInfos : Record(pool_info)
    \/ \E now \in Instants : AdvanceClock(now)
    \/ \E now \in Instants : AdvanceReplayClock(now)

SpecPool == InitPool /\ [][NextPool]_vars

(***************************************************************************)
(* Properties of the history store, checked under SpecPool.                *)
(***************************************************************************)
Sorted(series) ==
    \A j, k \in 1..Len(series) :
        j <= k => series[j].timestamp <= series[k].timestamp

\* C9: record prunes relative to the timestamp of the snapshot it appends,
\* not to the wall clock: the series it leaves depends on the previous
\* series and the snapshot only, so the same calls replayed at another
\* wall-clock time leave the same series.
C9_ReplayDeterministic == replay_data = historical_data

\* C10: while the timestamps recorded for a pool never decrease, its series
\* is sorted by timestamp and holds no entry more than 7 days older than
\* the timestamp recorded last.
C10_SortedAndFresh ==
    \A id \in DOMAIN historical_data :
        monotone[id] =>
            /\ Sorted(historical_data[id])
            /\ \A k \in 1..Len(historical_data[id]) :
                  historical_data[id][k].timestamp >= latest_ts[id] - Days(7)

(***************************************************************************)
(* Claims about the lifecycle of the monitor service, under Spec.          *)
(***************************************************************************)
\* C17: the items a run() schedules are the items present when that run()
\* returned; an item added later is never given a task by it.
C17_ItemsFixedAtRun ==
    [][\A r \in Runs : SpawnerAcquire(r) => Len(items) = run_len[r]]_vars

FairSpec ==
    /\ Spec
    /\ SF_vars(AddItemPush)
    /\ \A r \in Runs : WF_vars(SpawnerAcquire(r)) /\ WF_vars(SpawnerJoin(r))
    /\ \A t \in Tasks :
          /\ WF_vars(Tick(t))
          /\ WF_vars(\E res \in Statuses : ProbeReturn(t, res))
          /\ WF_vars(LockMetrics(t))
          /\ WF_vars(UpdatePublish(t))

RECURSIVE Gcd(_, _)
Gcd(a, b) == IF b = 0 THEN a ELSE Gcd(b, a % b)
Abs(n) == IF n < 0 THEN -n ELSE n

Num(n, d) ==
    LET g == Gcd(Abs(n), d)
    IN  [kind |-> "num", num |-> n \div g, den |-> d \div g]
\* 0.0
Zero == Num(0, 1)
Inf == [kind |-> "inf", num |-> 0, den |-> 1]
NegInf == [kind |-> "-inf", num |-> 0, den |-> 1]
NaN == [kind |-> "nan", num |-> 0, den |-> 1]

\* calculate_change: ((new_value - old_value) / old_value) * 100.0
CalculateChange(old_value, new_value) ==
    IF old_value = 0
    THEN IF new_value = 0 THEN NaN
         ELSE IF new_value > 0 THEN Inf ELSE NegInf
    ELSE Num((new_value - old_value) * 100, old_value)

\* iter().find(..): the first record, from the front, at or before time.
RECURSIVE FindFromFront(_, _, _)
FindFromFront(pool_history, k, time) ==
    IF k > Len(pool_history) THEN 0
    ELSE IF pool_history[k].timestamp <= time THEN k
    ELSE FindFromFront(pool_history, k + 1, time)
FindFirst(pool_history, time) == FindFromFront(pool_history, 1, time)

\* iter().rev().find(|r| r.timestamp <= time): the position of the first
\* record, from the back, at or before time; 0 for None.
RECURSIVE RevFindFrom(_, _, _)
RevFindFrom(pool_history, k, time) ==
    IF k = 0 THEN 0
    ELSE IF pool_history[k].timestamp <= time THEN k
    ELSE RevFindFrom(pool_history, k - 1, time)
RevFind(pool_history, time) == RevFindFrom(pool_history, Len(pool_history), time)

\* A history counted as missing until it holds two records.
NoHistoryUnderTwo(hd, pool_id) ==
    \/ pool_id \notin DOMAIN hd
    \/ Len(hd[pool_id]) < 2

\* historical_data.get(pool_id)? and the is_empty() test.
NoHistory(hd, pool_id) ==
    \/ pool_id \notin DOMAIN hd
    \/ hd[pool_id] = <<>>

\* record.map(|r| calculate_change(r.field, latest.field)).unwrap_or(0.0)
ChangeSince(pool_history, k, field) ==
    IF k = 0 THEN Zero
    ELSE CalculateChange(pool_history[k][field],
                         pool_history[Len(pool_history)][field])

\* The windows with the 5 minutes and the 24 hours exchanged.
WindowsSwapped ==
    [time_5m |-> Hours(24), time_15m |-> Minutes(15), time_1h |-> Hours(1),
     time_24h |-> Minutes(5)]

\* The durations subtracted from latest.timestamp: time_5m .. time_24h.
Windows ==
    [time_5m |-> Minutes(5), time_15m |-> Minutes(15), time_1h |-> Hours(1),
     time_24h |-> Hours(24)]

\* record_5m .. record_24h: the position of the record found for each
\* window, 0 for None.
FindRecords(pool_history) ==
    LET latest == pool_history[Len(pool_history)] IN
    [record_5m |-> RevFind(pool_history, latest.timestamp - Windows.time_5m),
     record_15m |-> RevFind(pool_history, latest.timestamp - Windows.time_15m),
     record_1h |-> RevFind(pool_history, latest.timestamp - Windows.time_1h),
     record_24h |-> RevFind(pool_history, latest.timestamp - Windows.time_24h)]

\* What get_changes found before it computed the changes.
RecordsOf(hd, pool_id) ==
    IF NoHistory(hd, pool_id) THEN NoRecords
    ELSE [some |-> TRUE, found |-> FindRecords(hd[pool_id])]

\* get_changes
GetChanges(hd, pool_id) ==
    IF NoHistory(hd, pool_id) THEN [some |-> FALSE]
    ELSE
    LET pool_history == hd[pool_id]
        latest == pool_history[Len(pool_history)]
        record_5m == FindRecords(pool_history).record_5m
        record_15m == FindRecords(pool_history).record_15m
        record_1h == FindRecords(pool_history).record_1h
        record_24h == FindRecords(pool_history).record_24h
    IN  [some |-> TRUE,
         volume_change_5m |-> ChangeSince(pool_history, record_5m, "volume_24h"),
         volume_change_15m |-> ChangeSince(pool_history, record_15m, "volume_24h"),
         volume_change_1h |-> ChangeSince(pool_history, record_1h, "volume_24h"),
         volume_change_24h |-> ChangeSince(pool_history, record_24h, "volume_24h"),
         price_change_5m |-> ChangeSince(pool_history, record_5m, "price"),
         price_change_15m |-> ChangeSince(pool_history, record_15m, "price"),
         price_change_1h |-> ChangeSince(pool_history, record_1h, "price"),
         price_change_24h |-> ChangeSince(pool_history, record_24h, "price"),
         tvl_change_24h |-> ChangeSince(pool_history, record_24h, "tvl")]

\* x.abs() >= alert
AbsGe(x, alert) ==
    CASE x.kind = "nan" -> FALSE
      [] x.kind \in {"inf", "-inf"} -> TRUE
      [] OTHER -> Abs(x.num) >= alert * x.den

\* x.abs() > alert, as f64 compares: false for NaN, true for an infinity.
AbsGt(x, alert) ==
    CASE x.kind = "nan" -> FALSE
      [] x.kind \in {"inf", "-inf"} -> TRUE
      [] OTHER -> Abs(x.num) > alert * x.den

\* The values a snapshot carries, the pools and the thresholds of the
\* command line.
Profiles ==
    {[volume_24h |-> 100, price |-> 2, tvl |-> 10],
     [volume_24h |-> 150, price |-> 3, tvl |-> 10],
     [volume_24h |-> 300, price |-> 2, tvl |-> 20],
     [volume_24h |-> 0, price |-> 2, tvl |-> 10]}
ChangeInfos ==
    {[id |-> id, volume_24h |-> v.volume_24h, price |-> v.price,
      tvl |-> v.tvl, timestamp |-> ts] :
        id \in PoolIds, v \in Profiles, ts \in Instants \ {Days(8)}}
\* <<price_alert, volume_alert>>
Thresholds == {<<10, 50>>, <<50, 10>>}

HistorySize(hd) ==
    (IF "p1" \in DOMAIN hd THEN Len(hd["p1"]) ELSE 0)
      + (IF "p2" \in DOMAIN hd THEN Len(hd["p2"]) ELSE 0)

InitChange ==
    /\ MonInit
    /\ historical_data = <<>>
    /\ replay_data = <<>>
    /\ utc_now \in Instants
    /\ replay_now = 0
    /\ latest_ts = <<>>
    /\ monotone = <<>>
    /\ OtherIdle

\* One call of update_historical_data.
UpdateCall(pool_info) ==
    /\ HistorySize(historical_data) < MaxHistory
    /\ historical_data' = UpdateHistoricalData(historical_data, pool_info,
                                               utc_now)
    /\ changes' = NoResult
    /\ alerts' = NoAlerts
    /\ records' = NoRecords
    /\ UNCHANGED <<utc_now, replay_data, replay_now, latest_ts, monotone>>
    /\ UNCHANGED concVars
    /\ UNCHANGED threadVars
    /\ UNCHANGED monVars

\* One call of get_changes.
GetChangesCall(pool_id) ==
    /\ changes' = [id |-> pool_id, result |-> GetChanges(historical_data, pool_id)]
    /\ alerts' = NoAlerts
    /\ records' = RecordsOf(historical_data, pool_id)
    /\ UNCHANGED poolVars
    /\ UNCHANGED concVars
    /\ UNCHANGED threadVars
    /\ UNCHANGED monVars

\* format_pool_data for one pool of the page: get_changes, then the two
\* alert checks when it returned Some.
FormatPoolData(pool_id, price_alert, volume_alert) ==
    LET c == GetChanges(historical_data, pool_id) IN
    /\ changes' = [id |-> pool_id, result |-> c]
    /\ records' = RecordsOf(historical_data, pool_id)
    /\ alerts' = IF c.some
                 THEN [evaluated |-> TRUE,
                       price_alert |-> price_alert,
                       volume_alert |-> volume_alert,
                       price |-> AbsGt(c.price_change_5m, price_alert),
                       volume |-> AbsGt(c.volume_change_5m, volume_alert)]
                 ELSE NoAlerts
    /\ UNCHANGED poolVars
    /\ UNCHANGED concVars
    /\ UNCHANGED threadVars
    /\ UNCHANGED monVars

\* The wall clock moves on.
ClockMoves(now) ==
    /\ now > utc_now
    /\ utc_now' = now
    /\ UNCHANGED <<historical_data, replay_data, replay_now, latest_ts,
                   monotone>>
    /\ UNCHANGED otherVars
    /\ UNCHANGED monVars

NextChange ==
    \/ \E pool_info \in ChangeInfos : UpdateCall(pool_info)
    \/ \E pool_id \in PoolIds : GetChangesCall(pool_id)
    \/ \E pool_id \in PoolIds, alert \in Thresholds :
          FormatPoolData(pool_id, alert[1], alert[2])
    \/ \E now \in Instants : ClockMoves(now)

SpecChange == InitChange /\ [][NextChange]_vars

(***************************************************************************)
(* Claims about the change engine and the alerts, under SpecChange.        *)
(***************************************************************************)
\* C11: get_changes returns None exactly when the id has no series or its
\* series is empty, and Some whenever the series holds at least one entry.
C11_NoneIffNoEntries ==
    changes.id # "" =>
        (changes.result.some <=>
            /\ changes.id \in DOMAIN historical_data
            /\ Len(historical_data[changes.id]) >= 1)

\* get_changes answered None for an id whose series is there but empty.
C11_Witness ==
    /\ changes.id \in DOMAIN historical_data
    /\ historical_data[changes.id] = <<>>
    /\ ~changes.result.some

\* The fields of ChangeMetrics: the window and the snapshot field of each.
ChangeFields ==
    {[name |-> "volume_change_5m", w |-> Minutes(5), field |-> "volume_24h"],
     [name |-> "volume_change_15m", w |-> Minutes(15), field |-> "volume_24h"],
     [name |-> "volume_change_1h", w |-> Hours(1), field |-> "volume_24h"],
     [name |-> "volume_change_24h", w |-> Hours(24), field |-> "volume_24h"],
     [name |-> "price_change_5m", w |-> Minutes(5), field |-> "price"],
     [name |-> "price_change_15m", w |-> Minutes(15), field |-> "price"],
     [name |-> "price_change_1h", w |-> Hours(1), field |-> "price"],
     [name |-> "price_change_24h", w |-> Hours(24), field |-> "price"],
     [name |-> "tvl_change_24h", w |-> Hours(24), field |-> "tvl"]}

\* The positions of the series old enough for window w.
OldEnough(series, w) ==
    {k \in 1..Len(series) :
        series[k].timestamp <= series[Len(series)].timestamp - w}
MaxOf(S) == CHOOSE k \in S : \A j \in S : j <= k

\* The series of the spec's example: t=0 (100), t=5m (150), t=24h+1s (300).
IsExample(series) ==
    /\ Len(series) = 3
    /\ series[1].timestamp = 0 /\ series[1].volume_24h = 100
    /\ series[2].timestamp = Minutes(5) /\ series[2].volume_24h = 150
    /\ series[3].timestamp = Hours(24) + 1 /\ series[3].volume_24h = 300

\* C12: for each window the baseline is the entry nearest the end of the
\* series whose timestamp is <= latest.timestamp - w, and the change x
\* satisfies x * baseline = (latest - baseline) * 100 (for a baseline that
\* is not 0; C13 is about the baseline 0); with no entry old enough the
\* change is exactly 0. On the spec's example volume_change_5m = 100 and
\* volume_change_24h = 200.
C12_WindowBaselines ==
    changes.result.some =>
        LET series == historical_data[changes.id]
            latest == series[Len(series)]
        IN  /\ \A f \in ChangeFields :
                LET Q == OldEnough(series, f.w)
                    x == changes.result[f.name]
                IN  IF Q = {} THEN x = [kind |-> "num", num |-> 0, den |-> 1]
                    ELSE LET b == series[MaxOf(Q)][f.field]
                             l == latest[f.field]
                         IN  b # 0 =>
                               /\ x.kind = "num"
                               /\ x.den > 0
                               /\ x.num * b = (l - b) * 100 * x.den
            /\ IsExample(series) =>
                /\ changes.result.volume_change_5m
                      = [kind |-> "num", num |-> 100, den |-> 1]
                /\ changes.result.volume_change_24h
                      = [kind |-> "num", num |-> 200, den |-> 1]

\* get_changes answered for the series of the example.
C12_Witness ==
    /\ changes.result.some
    /\ IsExample(historical_data[changes.id])
    /\ changes.result.volume_change_5m.num = 100

\* C13: no change that reaches the alert comparison is infinite or NaN
\* (the division by a baseline of 0 is guarded).
C13_NoUndefinedChangeInAlert ==
    alerts.evaluated =>
        /\ changes.result.price_change_5m.kind = "num"
        /\ changes.result.volume_change_5m.kind = "num"

\* C14: the price alert is raised exactly when |price_change_5m| >
\* price_alert and the volume alert exactly when |volume_change_5m| >
\* volume_alert, strictly; evaluating them changes neither the history nor
\* the state of the monitor service (its items and metrics).
C14_AlertsPure ==
    [][alerts'.evaluated =>
        LET p == changes'.result.price_change_5m
            v == changes'.result.volume_change_5m
            Exceeds(x, a) ==
                \/ x.kind \in {"inf", "-inf"}
                \/ /\ x.kind = "num"
                   /\ \/ x.num > a * x.den
                      \/ -x.num > a * x.den
        IN  /\ alerts'.price <=> Exceeds(p, alerts'.price_alert)
            /\ alerts'.volume <=> Exceeds(v, alerts'.volume_alert)
            /\ UNCHANGED <<historical_data, monVars>>]_vars

\* A price alert raised, and no volume alert for a volume change equal to
\* its threshold.
C14_Witness ==
    /\ alerts.evaluated
    /\ alerts.price
    /\ ~alerts.volume
    /\ changes.result.volume_change_5m
          = [kind |-> "num", num |-> alerts.volume_alert, den |-> 1]

(***************************************************************************)
(* Concurrent calls on one PoolMonitor: update_historical_data and         *)
(* get_changes, step by step, under the historical_data mutex.             *)
(***************************************************************************)
ConcInstants == {0, Minutes(5)}
ConcInfos ==
    {[id |-> id, volume_24h |-> v, price |-> 2, tvl |-> 10, timestamp |-> ts] :
        id \in PoolIds, v \in Volumes, ts \in ConcInstants}
ConcClock == {0, Days(8)}

\* The pool a call is about.
PoolOf(c) == IF caller[c].op = "update" THEN caller[c].arg.id ELSE caller[c].arg
Writers == {c \in Callers : caller[c].op = "update" /\ caller[c].pc # "idle"}

InitConc ==
    /\ MonInit
    /\ historical_data = <<>>
    /\ replay_data = <<>>
    /\ utc_now = 0
    /\ replay_now = 0
    /\ latest_ts = <<>>
    /\ monotone = <<>>
    /\ OtherIdle

\* update_historical_data(pool_info) is called: the caller waits in
\* historical_data.lock().await.
UpdateBegin(c, pool_info) ==
    /\ caller[c].pc = "idle"
    /\ HistorySize(historical_data) + Cardinality(Writers) < MaxHistory
    /\ caller' = [caller EXCEPT ![c] = [pc |-> "lock", op |-> "update",
                                         arg |-> pool_info,
                                         result |-> [some |-> FALSE]]]
    /\ UNCHANGED <<poolLock, serial>>
    /\ UNCHANGED changeVars
    /\ UNCHANGED threadVars
    /\ UNCHANGED poolVars
    /\ UNCHANGED monVars

\* get_changes(pool_id) is called: the caller waits in lock().await.
GetBegin(c, pool_id) ==
    /\ caller[c].pc = "idle"
    /\ caller' = [caller EXCEPT ![c] = [pc |-> "lock", op |-> "get",
                                         arg |-> pool_id,
                                         result |-> [some |-> FALSE]]]
    /\ UNCHANGED <<poolLock, serial>>
    /\ UNCHANGED changeVars
    /\ UNCHANGED threadVars
    /\ UNCHANGED poolVars
    /\ UNCHANGED monVars

\* The caller gets the mutex.
Acquire(c) ==
    /\ caller[c].pc = "lock"
    /\ poolLock = 0
    /\ poolLock' = c
    /\ caller' = [caller EXCEPT ![c].pc =
                     IF caller[c].op = "update" THEN "push" ELSE "read"]
    /\ UNCHANGED serial
    /\ UNCHANGED changeVars
    /\ UNCHANGED threadVars
    /\ UNCHANGED poolVars
    /\ UNCHANGED monVars

\* The guard dropped once the record is pushed.
GuardDroppedAfterPush(c) == 0

\* What the mutex holds after the push: the guard lives to the end of
\* update_historical_data.
GuardAfterPush(c) == c

\* entry(id).or_insert_with(Vec::new) and push.
Push(c) ==
    /\ caller[c].pc = "push"
    /\ LET pool_info == caller[c].arg IN
       historical_data' =
          [id \in (DOMAIN historical_data) \cup {pool_info.id} |->
              IF id = pool_info.id
              THEN Append(SeriesOf(historical_data, id),
                          [volume_24h |-> pool_info.volume_24h,
                           price |-> pool_info.price,
                           tvl |-> pool_info.tvl,
                           timestamp |-> pool_info.timestamp])
              ELSE historical_data[id]]
    /\ poolLock' = GuardAfterPush(c)
    /\ caller' = [caller EXCEPT ![c].pc = "retain"]
    /\ UNCHANGED serial
    /\ UNCHANGED <<utc_now, replay_data, replay_now, latest_ts, monotone>>
    /\ UNCHANGED changeVars
    /\ UNCHANGED threadVars
    /\ UNCHANGED monVars

\* week_ago = Utc::now() - 7 days and retain.
Retain(c) ==
    /\ caller[c].pc = "retain"
    /\ LET id == caller[c].arg.id
           week_ago == WeekAgo(utc_now, caller[c].arg)
       IN  historical_data' =
              [historical_data EXCEPT ![id] =
                  SelectSeq(@, LAMBDA record : record.timestamp > week_ago)]
    /\ serial' = UpdateHistoricalData(serial, caller[c].arg, utc_now)
    /\ caller' = [caller EXCEPT ![c].pc = "unlock"]
    /\ UNCHANGED poolLock
    /\ UNCHANGED <<utc_now, replay_data, replay_now, latest_ts, monotone>>
    /\ UNCHANGED changeVars
    /\ UNCHANGED threadVars
    /\ UNCHANGED monVars

\* get_changes reads the series and computes its answer.
Read(c) ==
    /\ caller[c].pc = "read"
    /\ caller' = [caller EXCEPT ![c].pc = "unlock",
                                ![c].result = GetChanges(historical_data,
                                                         caller[c].arg)]
    /\ UNCHANGED <<poolLock, serial>>
    /\ UNCHANGED changeVars
    /\ UNCHANGED threadVars
    /\ UNCHANGED poolVars
    /\ UNCHANGED monVars

\* The call returns and its guard is dropped.
Return(c) ==
    /\ caller[c].pc = "unlock"
    /\ poolLock' = IF poolLock = c THEN 0 ELSE poolLock
    /\ caller' = [caller EXCEPT ![c] = NoCaller]
    /\ UNCHANGED serial
    /\ UNCHANGED changeVars
    /\ UNCHANGED threadVars
    /\ UNCHANGED poolVars
    /\ UNCHANGED monVars

\* The wall clock moves on while calls are in flight.
ConcClockMoves(now) ==
    /\ now > utc_now
    /\ utc_now' = now
    /\ UNCHANGED <<historical_data, replay_data, replay_now, latest_ts,
                   monotone>>
    /\ UNCHANGED otherVars
    /\ UNCHANGED monVars

NextConc ==
    \/ \E c \in Callers, pool_info \in ConcInfos : UpdateBegin(c, pool_info)
    \/ \E c \in Callers, pool_id \in PoolIds : GetBegin(c, pool_id)
    \/ \E c \in Callers : Acquire(c)
    \/ \E c \in Callers : Push(c)
    \/ \E c \in Callers : Retain(c)
    \/ \E c \in Callers : Read(c)
    \/ \E c \in Callers : Return(c)
    \/ \E now \in ConcClock : ConcClockMoves(now)

SpecConc == InitConc /\ [][NextConc]_vars

(***************************************************************************)
(* Claims about concurrent calls, under SpecConc.                          *)
(***************************************************************************)
\* C15: a call about one pool never waits for the mutex while a call about
\* another pool holds it.
C15_NoCrossPoolContention ==
    \A c \in Callers :
        (caller[c].pc = "lock" /\ poolLock # 0) => PoolOf(poolLock) = PoolOf(c)

\* C16: concurrent update_historical_data calls take effect one at a time:
\* a caller between its push and the end of its retain holds the mutex,
\* whenever the mutex is free the history is what the updates give when
\* run one after the other in the order they got the mutex (no record lost
\* or doubled), and the answer of a get_changes is computed on such a
\* history, never on one pushed to and not yet pruned.
C16_UpdatesSerialize ==
    /\ \A c \in Callers :
          caller[c].pc \in {"push", "retain", "read"} => poolLock = c
    /\ poolLock = 0 => historical_data = serial
    /\ \A c \in Callers :
          (caller[c].op = "get" /\ caller[c].pc = "unlock") =>
              caller[c].result = GetChanges(serial, caller[c].arg)

\* Two updates of the same pool are in flight, one between its push and
\* its retain and the other waiting for the mutex, with a record pushed
\* that the retain will remove.
C16_Witness ==
    \E c, d \in Callers :
        /\ caller[c].pc = "retain"
        /\ caller[d].pc = "lock"
        /\ caller[d].op = "update"
        /\ PoolOf(c) = PoolOf(d)
        /\ utc_now = Days(8)

(***************************************************************************)
(* The thread scheduler of main.rs: run() spawns one thread per item; the  *)
(* thread probes, sends the result, and sleeps what is left of the         *)
(* interval. Time is counted in units; a probe takes a whole number of     *)
(* units, thread::sleep lasts exactly what it is asked, and every other    *)
(* statement takes no time.                                                *)
(***************************************************************************)
MaxTime == 7
\* check_interval of each item and the time a probe can take.
Interval == <<2, 3>>
Durations == {1, 2, 3, 4}

InitThread ==
    /\ MonInit
    /\ PoolIdle
    /\ OtherIdle

\* run(): one thread spawned per item.
ThreadRun ==
    /\ \A i \in ThreadItems : thread[i].pc = "none"
    /\ thread' = [i \in ThreadItems |-> [NoThread EXCEPT !.pc = "start"]]
    /\ UNCHANGED <<instant, chan>>
    /\ UNCHANGED <<changeVars, concVars>>
    /\ UNCHANGED poolVars
    /\ UNCHANGED monVars

\* let start = Instant::now(); the probe is called and will take d.
LoopStart(i, d) ==
    /\ thread[i].pc = "start"
    /\ instant < MaxTime
    /\ thread' = [thread EXCEPT ![i] =
                    [pc |-> "probe", start |-> instant, until |-> instant + d,
                     elapsed |-> @.elapsed, count |-> @.count + 1,
                     sent |-> @.sent, prev_start |-> @.start,
                     prev_elapsed |-> @.elapsed, late |-> @.late]]
    /\ UNCHANGED <<instant, chan>>
    /\ UNCHANGED <<changeVars, concVars>>
    /\ UNCHANGED poolVars
    /\ UNCHANGED monVars

\* A sleep of the whole interval after each probe.
SleepFull(item_interval, elapsed) == item_interval

\* thread::sleep(item_interval - elapsed), reached when elapsed <
\* item_interval.
SleepFor(item_interval, elapsed) == item_interval - elapsed

\* The probe returns: tx.send, elapsed = start.elapsed(), and the sleep if
\* elapsed < item_interval.
ProbeDone(i) ==
    /\ thread[i].pc = "probe"
    /\ instant = thread[i].until
    /\ chan' = Append(chan, i)
    /\ LET elapsed == instant - thread[i].start
           item_interval == Interval[i]
       IN  thread' = [thread EXCEPT
              ![i].elapsed = elapsed,
              ![i].sent = @ + 1,
              ![i].late = @ \/ elapsed > item_interval,
              ![i].pc = IF elapsed < item_interval THEN "sleep" ELSE "start",
              ![i].until = IF elapsed < item_interval
                           THEN instant + SleepFor(item_interval, elapsed)
                           ELSE instant]
    /\ UNCHANGED instant
    /\ UNCHANGED <<changeVars, concVars>>
    /\ UNCHANGED poolVars
    /\ UNCHANGED monVars

\* thread::sleep returns.
Wake(i) ==
    /\ thread[i].pc = "sleep"
    /\ instant = thread[i].until
    /\ thread' = [thread EXCEPT ![i].pc = "start"]
    /\ UNCHANGED <<instant, chan>>
    /\ UNCHANGED <<changeVars, concVars>>
    /\ UNCHANGED poolVars
    /\ UNCHANGED monVars

\* run() takes one result from the channel and prints it.
PrintResult ==
    /\ chan # <<>>
    /\ chan' = Tail(chan)
    /\ UNCHANGED <<instant, thread>>
    /\ UNCHANGED <<changeVars, concVars>>
    /\ UNCHANGED poolVars
    /\ UNCHANGED monVars

\* A thread with a step to take at this instant.
Due(i) ==
    \/ thread[i].pc = "start"
    \/ thread[i].pc \in {"probe", "sleep"} /\ thread[i].until = instant

\* Time passes when no thread has a step to take at this instant.
TimePasses ==
    /\ \A i \in ThreadItems : thread[i].pc # "none" /\ ~Due(i)
    /\ instant < MaxTime
    /\ instant' = instant + 1
    /\ UNCHANGED <<thread, chan>>
    /\ UNCHANGED <<changeVars, concVars>>
    /\ UNCHANGED poolVars
    /\ UNCHANGED monVars

NextThread ==
    \/ ThreadRun
    \/ \E i \in ThreadItems, d \in Durations : LoopStart(i, d)
    \/ \E i \in ThreadItems : ProbeDone(i)
    \/ \E i \in ThreadItems : Wake(i)
    \/ PrintResult
    \/ TimePasses

SpecThread == InitThread /\ [][NextThread]_vars

(***************************************************************************)
(* Claims about the thread scheduler, under SpecThread.                    *)
(***************************************************************************)
\* C19: between the starts of two consecutive probes of an item lies
\* exactly max(interval, elapsed of the earlier probe); as long as no
\* probe of the item took longer than the interval its k-th probe starts
\* at (k - 1) * interval; and each probe started has sent one result when
\* it is over, no more and no fewer.
C19_StartToStartGap ==
    \A i \in ThreadItems :
        LET th == thread[i]
            gap == th.start - th.prev_start
        IN  /\ th.count >= 2 =>
                gap = IF th.prev_elapsed > Interval[i]
                      THEN th.prev_elapsed ELSE Interval[i]
            /\ (th.count >= 1 /\ ~th.late) =>
                th.start = (th.count - 1) * Interval[i]
            /\ th.sent = IF th.pc = "probe" THEN th.count - 1 ELSE th.count

\* An item has started a probe right after one that took longer than its
\* interval, and another item a probe after a sleep.
C19_Witness ==
    \E i, j \in ThreadItems :
        /\ thread[i].count >= 2
        /\ thread[i].prev_elapsed > Interval[i]
        /\ thread[j].count >= 3
        /\ ~thread[j].late
        /\ thread[j].prev_elapsed < Interval[j]

(***************************************************************************)
(* Claims about what one call leaves behind, under SpecChange.             *)
(***************************************************************************)
\* The record update_historical_data pushes for pool_info.
RecordOf(pool_info) ==
    [volume_24h |-> pool_info.volume_24h, price |-> pool_info.price,
     tvl |-> pool_info.tvl, timestamp |-> pool_info.timestamp]

\* C21: when update_historical_data(pool_info) returns, the series of
\* pool_info.id is not empty and ends with the record of pool_info (so the
\* get_changes that follows answers Some, with that record as latest),
\* whatever the timestamp of pool_info and the wall clock.
C21_RecordedIsLatest ==
    [][\A pool_info \in ChangeInfos :
          UpdateCall(pool_info) =>
              /\ pool_info.id \in DOMAIN historical_data'
              /\ historical_data'[pool_info.id] # <<>>
              /\ historical_data'[pool_info.id]
                    [Len(historical_data'[pool_info.id])] = RecordOf(pool_info)
              /\ GetChanges(historical_data', pool_info.id).some]_vars

\* C22: in any get_changes answer, a window that finds a record implies
\* that every shorter window finds one, and the record of a longer window
\* is never at a later position of the series than the record of a
\* shorter one.
C22_BaselinesMonotone ==
    records.some =>
        LET f == records.found IN
        /\ f.record_24h # 0 => f.record_1h # 0
        /\ f.record_1h # 0 => f.record_15m # 0
        /\ f.record_15m # 0 => f.record_5m # 0
        /\ f.record_24h <= f.record_1h
        /\ f.record_1h <= f.record_15m
        /\ f.record_15m <= f.record_5m

\* A get_changes whose 24 hours window found a record, and whose 5
\* minutes window found a later one.
C22_Witness ==
    /\ records.some
    /\ records.found.record_24h # 0
    /\ records.found.record_24h < records.found.record_5m

\* C23: update_historical_data(pool_info) leaves the series of every pool
\* other than pool_info.id as it was (nothing appended, nothing pruned,
\* none created), and get_changes, alone or within format_pool_data,
\* changes no series.
C23_EntitiesIndependent ==
    [][/\ \A pool_info \in ChangeInfos :
            UpdateCall(pool_info) =>
                \A id \in PoolIds \ {pool_info.id} :
                    /\ id \in DOMAIN historical_data'
                          <=> id \in DOMAIN historical_data
                    /\ SeriesOf(historical_data', id)
                          = SeriesOf(historical_data, id)
       /\ (\E pool_id \in PoolIds : GetChangesCall(pool_id))
              => UNCHANGED historical_data
       /\ (\E pool_id \in PoolIds, alert \in Thresholds :
              FormatPoolData(pool_id, alert[1], alert[2]))
              => UNCHANGED historical_data]_vars

\* An update of one pool pruned its own record, at a wall clock for which
\* the other pool holds a record just as old, and that record is still
\* there; the other pool was then asked for its changes.
C23_Witness ==
    \E id \in PoolIds, other \in PoolIds :
        /\ id # other
        /\ id \in DOMAIN historical_data
        /\ historical_data[id] = <<>>
        /\ other \in DOMAIN historical_data
        /\ \E k \in 1..Len(historical_data[other]) :
              historical_data[other][k].timestamp <= utc_now - Days(7)
        /\ changes.id = other
        /\ changes.result.some

====
